---- MODULE Spec2Model ----
(***************************************************************************)
(* ConfigX: the in-memory configuration tree (configx/core/tree.py), the   *)
(* binary snapshot codec (configx/storage/snapshot.py), the write-ahead    *)
(* log (configx/storage/wal.py) and the storage runtime that coordinates   *)
(* them (configx/storage/runtime.py).                                      *)
(*                                                                         *)
(* Strings of the program (paths, node names) are sequences of one         *)
(* character strings, so that strip/split/join are computed as the code    *)
(* computes them.  A node is a record [name, value, type, children], the   *)
(* children an insertion-ordered sequence of nodes (a Python dict).        *)
(* configx/core/node.py and configx/core/errors.py are not part of the     *)
(* sources at hand; the Node operations are written from the specification.*)
(***************************************************************************)
EXTENDS Integers, Sequences, FiniteSets, TLC

\* ------------------------------------------------------------------ bounds

\* The longest write-ahead log the model lets a mutation append to.
MaxWal == 3

\* The number of calls (and crashes) in one run.
MaxCalls == 5

\* ------------------------------------------------------------------ values

\* struct.pack(">q", v) accepts -2^63 <= v < 2^63.  Integers are modelled
\* in units of 2^61, so the exclusive upper limit 2^63 is 4 units.
QLimit == 4

\* Python None: the absent value, and the absent type tag.
None == [kind |-> "NONE", v |-> 0]
NoType == "NONE"

IntV(n) == [kind |-> "INT", v |-> n]
BoolV(b) == [kind |-> "BOOL", v |-> IF b THEN 1 ELSE 0]
FloatV(n) == [kind |-> "FLOAT", v |-> n]
StrV(s) == [kind |-> "STR", v |-> s]
\* A Python list: a value json.dumps accepts and Node.infer_type rejects.
ListV(n) == [kind |-> "LIST", v |-> n]

\* Node.infer_type: bool -> BOOL, int -> INT, float -> FLOAT, str -> STR;
\* any other kind is rejected with the invalid-format error.
InferTypeOk(value) == value.kind \in {"BOOL", "INT", "FLOAT", "STR"}
InferType(value) == value.kind

\* ------------------------------------------------------------------ nodes

\* Node(name=...): no value, no type tag, no children.
Node(name) == [name |-> name, value |-> None, type |-> NoType, children |-> <<>>]

RootName == <<"r", "o", "o", "t">>

\* part in node.children: the position of the child called part, 0 if none.
ChildIndex(node, part) ==
    IF \E i \in 1..Len(node.children) : node.children[i].name = part
    THEN CHOOSE i \in 1..Len(node.children) : node.children[i].name = part
    ELSE 0

\* Every node of the subtree rooted at node.
RECURSIVE NodesOf(_)
NodesOf(node) ==
    {node} \cup UNION {NodesOf(node.children[i]) : i \in 1..Len(node.children)}

\* Node.is_leaf per the glossary: a node with a value and no children.
IsLeaf(node) == node.value # None /\ Len(node.children) = 0

\* Node.to_primitive as a flat mapping: the set of [path, val] entries, one
\* per leaf (its scalar) and one per empty interior node (the empty mapping,
\* EmptyMap).  Two nested mappings are equal iff these sets are equal.
EmptyMap == [kind |-> "DICT", v |-> 0]

RECURSIVE ToPrimitive(_, _)
ToPrimitive(node, prefix) ==
    IF Len(node.children) = 0
    THEN {[path |-> prefix, val |-> IF node.value # None THEN node.value ELSE EmptyMap]}
    ELSE UNION {ToPrimitive(node.children[i], Append(prefix, node.children[i].name)) :
                   i \in 1..Len(node.children)}

\* ------------------------------------------------------------------ paths

\* path is None
PathNone == <<"<None>">>

IsSpace(c) == c = " "

RECURSIVE LStrip(_)
LStrip(s) == IF s # <<>> /\ IsSpace(Head(s)) THEN LStrip(Tail(s)) ELSE s

RECURSIVE RStrip(_)
RStrip(s) ==
    IF s # <<>> /\ IsSpace(s[Len(s)]) THEN RStrip(SubSeq(s, 1, Len(s) - 1)) ELSE s

\* str.strip()
Strip(s) == RStrip(LStrip(s))

\* str.split("."): the pieces between the dots, empty pieces included.
RECURSIVE SplitDot(_, _)
SplitDot(s, cur) ==
    IF s = <<>> THEN <<cur>>
    ELSE IF Head(s) = "." THEN <<cur>> \o SplitDot(Tail(s), <<>>)
    ELSE SplitDot(Tail(s), Append(cur, Head(s)))

\* ".".join(parts)
RECURSIVE Join(_)
Join(parts) ==
    IF parts = <<>> THEN <<>>
    ELSE IF Len(parts) = 1 THEN parts[1]
    ELSE parts[1] \o <<".">> \o Join(Tail(parts))

\* A split that keeps the empty pieces.
SplitPartsKeepEmpty(path) == SplitDot(Strip(path), <<>>)

\* ConfigTree._split: [ok, parts]; not ok is ConfigInvalidPathError.
SplitParts(path) == SelectSeq(SplitDot(Strip(path), <<>>), LAMBDA p : p # <<>>)
Split(path) ==
    IF path = PathNone THEN [ok |-> FALSE, parts |-> <<>>]
    ELSE [ok |-> SplitParts(path) # <<>>, parts |-> SplitParts(path)]

\* ------------------------------------------------------------------ walking

\* Does the chain of children named by parts exist below node?
RECURSIVE HasPath(_, _)
HasPath(node, parts) ==
    IF parts = <<>> THEN TRUE
    ELSE IF ChildIndex(node, Head(parts)) = 0 THEN FALSE
    ELSE HasPath(node.children[ChildIndex(node, Head(parts))], Tail(parts))

\* The node reached from node along parts (which must exist).
RECURSIVE NodeAt(_, _)
NodeAt(node, parts) ==
    IF parts = <<>> THEN node
    ELSE NodeAt(node.children[ChildIndex(node, Head(parts))], Tail(parts))

\* _walk with create_missing=True outside strict mode: every missing node
\* along parts is created as a new Node(name=part), appended to its
\* parent's children, whatever the parent holds.
RECURSIVE CreatePath(_, _)
CreatePath(node, parts) ==
    IF parts = <<>> THEN node
    ELSE LET i == ChildIndex(node, Head(parts)) IN
         IF i # 0
         THEN [node EXCEPT !.children[i] = CreatePath(node.children[i], Tail(parts))]
         ELSE [node EXCEPT !.children =
                   Append(node.children, CreatePath(Node(Head(parts)), Tail(parts)))]

\* An assignment that is lost: the tree stays as it was.
ReplaceAtLost(node, parts, new) == node

\* The tree with the node at parts replaced by new.
RECURSIVE ReplaceAt(_, _, _)
ReplaceAt(node, parts, new) ==
    IF parts = <<>> THEN new
    ELSE LET i == ChildIndex(node, Head(parts)) IN
         [node EXCEPT !.children[i] = ReplaceAt(node.children[i], Tail(parts), new)]

\* dict.pop(key) on the children of a node.
PopChild(node, key) ==
    [node EXCEPT !.children =
        SelectSeq(node.children, LAMBDA c : c.name # key)]

\* A walk that creates missing nodes in strict mode too.
WalkPartsLenient(root, strict, parts, create_missing) ==
    IF HasPath(root, parts) THEN [status |-> "ok", root |-> root, parts |-> parts]
    ELSE IF ~create_missing THEN [status |-> "missing", root |-> root, parts |-> parts]
    ELSE [status |-> "ok", root |-> CreatePath(root, parts), parts |-> parts]

\* ConfigTree._walk over the parts of the path: status is "ok" (root holds
\* the tree after the walk, parts the path of the node returned),
\* "missing" (returns None) or "strict-mode" (raises).
WalkParts(root, strict, parts, create_missing) ==
    IF HasPath(root, parts) THEN [status |-> "ok", root |-> root, parts |-> parts]
    ELSE IF ~create_missing THEN [status |-> "missing", root |-> root, parts |-> parts]
    ELSE IF strict THEN [status |-> "strict-mode", root |-> root, parts |-> parts]
    ELSE [status |-> "ok", root |-> CreatePath(root, parts), parts |-> parts]

\* ConfigTree._walk: _split raises "invalid-path" before the walk.
Walk(root, strict, path, create_missing) ==
    IF ~Split(path).ok THEN [status |-> "invalid-path", root |-> root, parts |-> <<>>]
    ELSE WalkParts(root, strict, Split(path).parts, create_missing)

\* A get that returns the view of the root whatever the path.
GetWalkedFromRoot(root, w) ==
    IF w.status = "ok"
    THEN [ok |-> TRUE, err |-> "", val |-> ToPrimitive(root, <<>>)]
    ELSE [ok |-> FALSE, err |-> IF w.status = "missing" THEN "path-not-found" ELSE w.status,
          val |-> {}]

\* ConfigTree.get: [ok, err, val]
GetWalked(root, w) ==
    IF w.status = "ok"
    THEN [ok |-> TRUE, err |-> "", val |-> ToPrimitive(NodeAt(root, w.parts), <<>>)]
    ELSE [ok |-> FALSE, err |-> IF w.status = "missing" THEN "path-not-found" ELSE w.status,
          val |-> {}]
Get(root, path) == GetWalked(root, Walk(root, FALSE, path, FALSE))

\* ConfigTree.to_dict
ToDict(root) == IF Len(root.children) = 0 THEN {} ELSE ToPrimitive(root, <<>>)

\* ------------------------------------------------------------------ WAL records

\* json.dumps of a value, and json.loads of the text: a JSON literal is
\* [j, v], j the literal's form.  An integer literal loads as an int, a
\* literal with a fraction as a float.
NoJson == [j |-> "absent", v |-> 0]
JsonDumps(value) ==
    CASE value.kind = "BOOL" -> [j |-> IF value.v = 1 THEN "true" ELSE "false", v |-> 0]
      [] value.kind = "INT" -> [j |-> "integer", v |-> value.v]
      [] value.kind = "FLOAT" -> [j |-> "fraction", v |-> value.v]
      [] value.kind = "STR" -> [j |-> "string", v |-> value.v]
      [] value.kind = "LIST" -> [j |-> "array", v |-> value.v]
      [] OTHER -> [j |-> "null", v |-> 0]
JsonLoads(text) ==
    CASE text.j = "true" -> BoolV(TRUE)
      [] text.j = "false" -> BoolV(FALSE)
      [] text.j = "integer" -> IntV(text.v)
      [] text.j = "fraction" -> FloatV(text.v)
      [] text.j = "string" -> StrV(text.v)
      [] text.j = "array" -> ListV(text.v)
      [] OTHER -> None

\* One line of the WAL file (the advisory "ts" field is left out: replay
\* never reads it).
SetEntry(path, value) == [op |-> "SET", path |-> path, value |-> JsonDumps(value)]
DeleteEntry(path) == [op |-> "DELETE", path |-> path, value |-> NoJson]
BlankLine == [op |-> "", path |-> <<>>, value |-> NoJson]

\* WriteAheadLog._append
WalAppend(wal, entry) == Append(wal, entry)

\* A set or delete that appends its record whoever calls it.
ShouldLogAlways(internal, logging) == TRUE

\* The mutation is logged when it is not internal and the runtime's
\* _logging_enabled is set.
ShouldLog(internal, logging) == ~internal /\ logging

\* ------------------------------------------------------------------ set, delete

\* What a call that raised err before reaching the hook leaves behind.
Raised(err, root, wal) ==
    [outcome |-> err, root |-> root, wal |-> wal, hooked |-> FALSE, hookRoot |-> root]

\* A set that assigns without looking at the node's children.
SetNodeOverInterior(logging, wal, path, value, internal, ioOk, w, node) ==
    IF ShouldLog(internal, logging) /\ ~ioOk
    THEN [outcome |-> "io-error", root |-> w.root, wal |-> wal,
          hooked |-> ~internal, hookRoot |-> w.root]
    ELSE [outcome |-> IF InferTypeOk(value) THEN "returned" ELSE "invalid-format",
          root |-> ReplaceAt(w.root, w.parts,
                      IF InferTypeOk(value)
                      THEN [node EXCEPT !.value = value, !.type = InferType(value),
                                        !.children = <<>>]
                      ELSE [node EXCEPT !.value = value]),
          wal |-> IF ShouldLog(internal, logging)
                  THEN WalAppend(wal, SetEntry(path, value)) ELSE wal,
          hooked |-> ~internal, hookRoot |-> w.root]

\* ConfigTree.set from the interior check on: w is what the walk returned,
\* node the node it reached.  The record is appended (before_set), then the
\* value is assigned, then infer_type runs, then the children are cleared.
SetNode(logging, wal, path, value, internal, ioOk, w, node) ==
    IF Len(node.children) > 0 THEN Raised("node-structure", w.root, wal)
    ELSE IF ShouldLog(internal, logging) /\ ~ioOk
    THEN [outcome |-> "io-error", root |-> w.root, wal |-> wal,
          hooked |-> ~internal, hookRoot |-> w.root]
    ELSE [outcome |-> IF InferTypeOk(value) THEN "returned" ELSE "invalid-format",
          root |-> ReplaceAt(w.root, w.parts,
                      IF InferTypeOk(value)
                      THEN [node EXCEPT !.value = value, !.type = InferType(value),
                                        !.children = <<>>]
                      ELSE [node EXCEPT !.value = value]),
          wal |-> IF ShouldLog(internal, logging)
                  THEN WalAppend(wal, SetEntry(path, value)) ELSE wal,
          hooked |-> ~internal, hookRoot |-> w.root]

\* ConfigTree.set from the walk on.
SetWalked(root, logging, wal, path, value, internal, ioOk, w) ==
    IF w.status # "ok" THEN Raised(w.status, root, wal)
    ELSE SetNode(logging, wal, path, value, internal, ioOk, w, NodeAt(w.root, w.parts))

\* ConfigTree.set.  outcome is "returned" or the error raised; root and wal
\* are the tree and the log the call leaves behind; hooked says that
\* runtime.before_set was invoked and hookRoot is the tree at that moment.
\* ioOk is whether the WAL file can be opened and written.
SetCall(root, strict, logging, wal, path, value, internal, ioOk) ==
    SetWalked(root, logging, wal, path, value, internal, ioOk,
              Walk(root, strict, path, TRUE))

\* A delete that appends its record before it looks for the node.
DeleteWalkedLogsFirst(root, logging, wal, path, internal, ioOk, pw, key) ==
    IF pw.status = "invalid-path" THEN Raised("invalid-path", root, wal)
    ELSE IF pw.status = "missing" \/ ChildIndex(NodeAt(root, pw.parts), key) = 0
    THEN [outcome |-> "false", root |-> root,
          wal |-> IF ShouldLog(internal, logging)
                  THEN WalAppend(wal, DeleteEntry(path)) ELSE wal,
          hooked |-> ~internal, hookRoot |-> root]
    ELSE [outcome |-> "true",
          root |-> ReplaceAt(root, pw.parts, PopChild(NodeAt(root, pw.parts), key)),
          wal |-> IF ShouldLog(internal, logging)
                  THEN WalAppend(wal, DeleteEntry(path)) ELSE wal,
          hooked |-> ~internal, hookRoot |-> root]

\* ConfigTree.delete from the parent walk on: pw is what the walk to the
\* parent returned, key the last part.
DeleteWalked(root, logging, wal, path, internal, ioOk, pw, key) ==
    IF pw.status = "invalid-path" THEN Raised("invalid-path", root, wal)
    ELSE IF pw.status = "missing" THEN Raised("false", root, wal)
    ELSE IF ChildIndex(NodeAt(root, pw.parts), key) = 0 THEN Raised("false", root, wal)
    ELSE IF ShouldLog(internal, logging) /\ ~ioOk
    THEN [outcome |-> "io-error", root |-> root, wal |-> wal,
          hooked |-> ~internal, hookRoot |-> root]
    ELSE [outcome |-> "true",
          root |-> ReplaceAt(root, pw.parts, PopChild(NodeAt(root, pw.parts), key)),
          wal |-> IF ShouldLog(internal, logging)
                  THEN WalAppend(wal, DeleteEntry(path)) ELSE wal,
          hooked |-> ~internal, hookRoot |-> root]

\* A delete that does not look for the name "root".
DeletePartsAnyName(root, strict, logging, wal, path, internal, ioOk, parts, parent_path) ==
    DeleteWalked(root, logging, wal, path, internal, ioOk,
                 IF parent_path # <<>> THEN Walk(root, strict, parent_path, FALSE)
                 ELSE [status |-> "ok", root |-> root, parts |-> <<>>],
                 parts[Len(parts)])

\* ConfigTree.delete from the split on: the parent is walked by its joined
\* path, and is the root when that path is empty.
DeleteParts(root, strict, logging, wal, path, internal, ioOk, parts, parent_path) ==
    IF parts = <<RootName>> THEN Raised("node-structure", root, wal)
    ELSE DeleteWalked(root, logging, wal, path, internal, ioOk,
                      IF parent_path # <<>> THEN Walk(root, strict, parent_path, FALSE)
                      ELSE [status |-> "ok", root |-> root, parts |-> <<>>],
                      parts[Len(parts)])

\* ConfigTree.delete.  outcome is "true", "false" or the error raised.
DeleteCall(root, strict, logging, wal, path, internal, ioOk) ==
    IF ~Split(path).ok THEN Raised("invalid-path", root, wal)
    ELSE DeleteParts(root, strict, logging, wal, path, internal, ioOk, Split(path).parts,
                     Join(SubSeq(Split(path).parts, 1, Len(Split(path).parts) - 1)))

\* ------------------------------------------------------------------ load_dict

\* node.children[child.name] = child
DictPut(children, child) ==
    IF \E i \in 1..Len(children) : children[i].name = child.name
    THEN [i \in 1..Len(children) |->
              IF children[i].name = child.name THEN child ELSE children[i]]
    ELSE Append(children, child)

\* A Python mapping is a sequence of items [key, isStr, isMap, val, items]:
\* key the key (isStr: it is a string), val a scalar or, when isMap, items
\* the nested mapping.
ScalarItem(key, val) == [key |-> key, isStr |-> TRUE, isMap |-> FALSE, val |-> val, items |-> <<>>]
MapItem(key, items) == [key |-> key, isStr |-> TRUE, isMap |-> TRUE, val |-> None, items |-> items]
\* An item whose key is the integer 7.
IntKeyItem(val) == [key |-> <<"7">>, isStr |-> FALSE, isMap |-> FALSE, val |-> val, items |-> <<>>]

\* Node.from_primitive(name, value): [ok, node]; a scalar becomes a leaf
\* with the inferred type, a mapping an interior node; a key that is not a
\* string, or a scalar of an unsupported kind, is the invalid-format error.
RECURSIVE FromPrimitive(_)
RECURSIVE FromItems(_, _, _)
RECURSIVE FromNext(_, _, _, _)
Interior(key, kids) ==
    [ok |-> kids.ok,
     node |-> [name |-> key, value |-> None, type |-> NoType, children |-> kids.children]]
FromPrimitive(item) ==
    IF ~item.isMap
    THEN [ok |-> InferTypeOk(item.val),
          node |-> [name |-> item.key, value |-> item.val,
                    type |-> InferType(item.val), children |-> <<>>]]
    ELSE Interior(item.key, FromItems(item.items, 1, <<>>))
FromItems(items, i, acc) ==
    IF i > Len(items) THEN [ok |-> TRUE, children |-> acc]
    ELSE IF ~items[i].isStr THEN [ok |-> FALSE, children |-> acc]
    ELSE FromNext(FromPrimitive(items[i]), items, i, acc)
FromNext(one, items, i, acc) ==
    IF ~one.ok THEN [ok |-> FALSE, children |-> acc]
    ELSE FromItems(items, i + 1, DictPut(acc, one.node))

\* ConfigTree.load_dict over the items of data from item i on: self.root
\* has been replaced before the first key is looked at, and every child
\* built so far stays when a later key is rejected.
RECURSIVE LoadItems(_, _, _)
RECURSIVE LoadNext(_, _, _, _)
LoadItems(tree, items, i) ==
    IF i > Len(items) THEN [outcome |-> "returned", root |-> tree]
    ELSE IF ~items[i].isStr THEN [outcome |-> "invalid-format", root |-> tree]
    ELSE LoadNext(FromPrimitive(items[i]), tree, items, i)
LoadNext(one, tree, items, i) ==
    IF ~one.ok THEN [outcome |-> "invalid-format", root |-> tree]
    ELSE LoadItems([tree EXCEPT !.children = DictPut(tree.children, one.node)],
                   items, i + 1)

\* ConfigTree.load_dict(data); isDict is isinstance(data, dict).
LoadDictCall(tree, isDict, items) ==
    IF ~isDict THEN [outcome |-> "invalid-format", root |-> tree]
    ELSE LoadItems(Node(RootName), items, 1)

\* ------------------------------------------------------------------ snapshot codec

\* The snapshot file is a sequence of fields [f, n, b]: f the field's
\* encoding, n its number, b its bytes (characters).
U32(n) == [f |-> "u32", n |-> n, b |-> <<>>]
U8(n) == [f |-> "u8", n |-> n, b |-> <<>>]
Bytes(b) == [f |-> "bytes", n |-> 0, b |-> b]
PackBool(n) == [f |-> "?", n |-> n, b |-> <<>>]
PackQ(n) == [f |-> ">q", n |-> n, b |-> <<>>]
PackD(n) == [f |-> ">d", n |-> n, b |-> <<>>]

MAGIC == <<"C", "F", "G", "X">>
VERSION == 1

NoFile == [exists |-> FALSE, bytes |-> <<>>]

\* SnapshotStore._write_header
WriteHeader == <<Bytes(MAGIC), U8(VERSION)>>

\* A writer that tags a packed integer as a float.
EncodeValueIntAsFloat(value) ==
    CASE value = None -> [ok |-> TRUE, tag |-> "N", len |-> 0, val |-> Bytes(<<>>)]
      [] value.kind = "BOOL" -> [ok |-> TRUE, tag |-> "B", len |-> 1, val |-> PackBool(value.v)]
      [] value.kind = "INT" ->
            [ok |-> -QLimit <= value.v /\ value.v < QLimit, tag |-> "F", len |-> 8,
             val |-> PackQ(value.v)]
      [] value.kind = "FLOAT" -> [ok |-> TRUE, tag |-> "F", len |-> 8, val |-> PackD(value.v)]
      [] value.kind = "STR" ->
            [ok |-> TRUE, tag |-> "S", len |-> Len(value.v), val |-> Bytes(value.v)]
      [] OTHER -> [ok |-> FALSE, tag |-> "N", len |-> 0, val |-> Bytes(<<>>)]

\* The VALUE part of _write_node: the tag and the packed value, or not ok
\* when struct.pack(">q") rejects the integer or the kind is unsupported.
EncodeValue(value) ==
    CASE value = None -> [ok |-> TRUE, tag |-> "N", len |-> 0, val |-> Bytes(<<>>)]
      [] value.kind = "BOOL" -> [ok |-> TRUE, tag |-> "B", len |-> 1, val |-> PackBool(value.v)]
      [] value.kind = "INT" ->
            [ok |-> -QLimit <= value.v /\ value.v < QLimit, tag |-> "I", len |-> 8,
             val |-> PackQ(value.v)]
      [] value.kind = "FLOAT" -> [ok |-> TRUE, tag |-> "F", len |-> 8, val |-> PackD(value.v)]
      [] value.kind = "STR" ->
            [ok |-> TRUE, tag |-> "S", len |-> Len(value.v), val |-> Bytes(value.v)]
      [] OTHER -> [ok |-> FALSE, tag |-> "N", len |-> 0, val |-> Bytes(<<>>)]

\* SnapshotStore._write_node: [ok, bytes], bytes what reached the file; the
\* name is written before the value is packed, so a value that cannot be
\* packed leaves the file ending after that node's name.
RECURSIVE WriteNode(_)
RECURSIVE WriteChildren(_, _)
RECURSIVE WriteRest(_, _, _)
WriteBody(node, enc, kids) ==
    IF ~enc.ok THEN [ok |-> FALSE, bytes |-> <<U32(Len(node.name)), Bytes(node.name)>>]
    ELSE [ok |-> kids.ok,
          bytes |-> <<U32(Len(node.name)), Bytes(node.name), Bytes(<<enc.tag>>),
                      U32(enc.len), enc.val, U32(Len(node.children))>> \o kids.bytes]
WriteNode(node) ==
    WriteBody(node, EncodeValue(node.value),
              IF EncodeValue(node.value).ok THEN WriteChildren(node.children, 1)
              ELSE [ok |-> FALSE, bytes |-> <<>>])
WriteChildren(children, i) ==
    IF i > Len(children) THEN [ok |-> TRUE, bytes |-> <<>>]
    ELSE WriteRest(WriteNode(children[i]), children, i)
WriteRest(one, children, i) ==
    IF ~one.ok THEN one
    ELSE [ok |-> WriteChildren(children, i + 1).ok,
          bytes |-> one.bytes \o WriteChildren(children, i + 1).bytes]

\* SnapshotStore.save: the file is opened "wb" (truncated) and holds
\* whatever was written when the call returns or raises.
Saved(w) == [ok |-> w.ok, file |-> [exists |-> TRUE, bytes |-> WriteHeader \o w.bytes]]
Save(root) == Saved(WriteNode(root))

\* A reader that takes the byte of a boolean for an integer.
DecodeValueBoolAsInt(tag, val) ==
    CASE tag = "N" -> [ok |-> TRUE, value |-> None, type |-> NoType]
      [] tag = "B" -> [ok |-> TRUE, value |-> IntV(val.n), type |-> "INT"]
      [] tag = "I" -> [ok |-> TRUE, value |-> IntV(val.n), type |-> "INT"]
      [] tag = "F" -> [ok |-> TRUE, value |-> FloatV(val.n), type |-> "FLOAT"]
      [] tag = "S" -> [ok |-> TRUE, value |-> StrV(val.b), type |-> "STR"]
      [] OTHER -> [ok |-> FALSE, value |-> None, type |-> NoType]

\* The VALUE part of _read_node
DecodeValue(tag, val) ==
    CASE tag = "N" -> [ok |-> TRUE, value |-> None, type |-> NoType]
      [] tag = "B" -> [ok |-> TRUE, value |-> BoolV(val.n = 1), type |-> "BOOL"]
      [] tag = "I" -> [ok |-> TRUE, value |-> IntV(val.n), type |-> "INT"]
      [] tag = "F" -> [ok |-> TRUE, value |-> FloatV(val.n), type |-> "FLOAT"]
      [] tag = "S" -> [ok |-> TRUE, value |-> StrV(val.b), type |-> "STR"]
      [] OTHER -> [ok |-> FALSE, value |-> None, type |-> NoType]

\* SnapshotStore._read_node from field pos on: [ok, node, pos]; not ok when
\* the file ends early or a tag is unknown.
RECURSIVE ReadNode(_, _)
RECURSIVE ReadChildren(_, _, _, _)
RECURSIVE ReadNext(_, _, _, _)
ReadBody(bytes, pos, dec, kids) ==
    IF ~dec.ok \/ ~kids.ok THEN [ok |-> FALSE, node |-> Node(<<>>), pos |-> pos]
    ELSE [ok |-> TRUE,
          node |-> [name |-> bytes[pos + 1].b, value |-> dec.value,
                    type |-> dec.type, children |-> kids.children],
          pos |-> kids.pos]
ReadNode(bytes, pos) ==
    IF pos + 5 > Len(bytes) THEN [ok |-> FALSE, node |-> Node(<<>>), pos |-> pos]
    ELSE ReadBody(bytes, pos, DecodeValue(bytes[pos + 2].b[1], bytes[pos + 4]),
                  ReadChildren(bytes, pos + 6, bytes[pos + 5].n, <<>>))
ReadChildren(bytes, pos, count, acc) ==
    IF count = 0 THEN [ok |-> TRUE, children |-> acc, pos |-> pos]
    ELSE ReadNext(ReadNode(bytes, pos), bytes, count, acc)
ReadNext(one, bytes, count, acc) ==
    IF ~one.ok THEN [ok |-> FALSE, children |-> acc, pos |-> one.pos]
    ELSE ReadChildren(bytes, one.pos, count - 1, DictPut(acc, one.node))

\* SnapshotStore._read_header
ReadHeaderOk(bytes) ==
    /\ Len(bytes) >= 2
    /\ bytes[1] = Bytes(MAGIC)
    /\ bytes[2] = U8(VERSION)

\* SnapshotStore.load: [ok, root]; tree.root is assigned only when the
\* whole node was read.
Loaded(root, headerOk, r) ==
    IF headerOk /\ r.ok THEN [ok |-> TRUE, root |-> r.node]
    ELSE [ok |-> FALSE, root |-> root]
Load(root, file) == Loaded(root, ReadHeaderOk(file.bytes), ReadNode(file.bytes, 3))

\* ------------------------------------------------------------------ recovery

\* What replay sees of a call: it goes on unless the call raised.
Applied(r) ==
    [ok |-> r.outcome \in {"returned", "true", "false"}, root |-> r.root, wal |-> r.wal]

\* WriteAheadLog._apply_entry: [ok, root, wal]
ApplyEntry(root, strict, logging, wal, entry) ==
    IF entry.op = "SET"
    THEN Applied(SetCall(root, strict, logging, wal, entry.path,
                         JsonLoads(entry.value), TRUE, TRUE))
    ELSE IF entry.op = "DELETE"
    THEN Applied(DeleteCall(root, strict, logging, wal, entry.path, TRUE, TRUE))
    ELSE [ok |-> FALSE, root |-> root, wal |-> wal]

\* WriteAheadLog.replay over the lines of the file from line i on; blank
\* lines are skipped and it stops at the first entry that raises.
RECURSIVE Replay(_, _, _, _, _, _)
RECURSIVE ReplayNext(_, _, _, _, _)
Replay(root, strict, logging, wal, lines, i) ==
    IF i > Len(lines) THEN [ok |-> TRUE, root |-> root, wal |-> wal]
    ELSE IF lines[i] = BlankLine THEN Replay(root, strict, logging, wal, lines, i + 1)
    ELSE ReplayNext(ApplyEntry(root, strict, logging, wal, lines[i]),
                    strict, logging, lines, i)
ReplayNext(r, strict, logging, lines, i) ==
    IF ~r.ok THEN r ELSE Replay(r.root, strict, logging, r.wal, lines, i + 1)

\* StorageRuntime.start after the replay: _logging_enabled is set again
\* only when the replay returned.
StartReplayed(rp) ==
    [ok |-> rp.ok, root |-> rp.root, wal |-> rp.wal, logging |-> rp.ok]

\* StorageRuntime.start after the snapshot load.
StartLoaded(root, strict, wal, ld) ==
    IF ~ld.ok THEN [ok |-> FALSE, root |-> root, wal |-> wal, logging |-> FALSE]
    ELSE StartReplayed(Replay(ld.root, strict, FALSE, wal, wal, 1))

\* StorageRuntime.start: [ok, root, wal, logging].  _logging_enabled is
\* cleared first; the snapshot is loaded if the file exists; the WAL is
\* replayed.
Start(root, strict, file, wal) ==
    StartLoaded(root, strict, wal,
                IF file.exists THEN Load(root, file) ELSE [ok |-> TRUE, root |-> root])

\* What _apply_entry raises on entry, if anything: the error of the set or
\* delete it calls, or the ValueError of its last branch.
EntryError(root, strict, entry) ==
    IF entry.op = "SET"
    THEN SetCall(root, strict, FALSE, <<>>, entry.path, JsonLoads(entry.value),
                 TRUE, TRUE).outcome
    ELSE IF entry.op = "DELETE"
    THEN DeleteCall(root, strict, FALSE, <<>>, entry.path, TRUE, TRUE).outcome
    ELSE "ValueError"

\* What WriteAheadLog.replay raises over the lines from line i on: the
\* error of the first entry that raises, "none" when it returns.
RECURSIVE ReplayError(_, _, _, _)
RECURSIVE ReplayErrorNext(_, _, _, _, _)
ReplayError(root, strict, lines, i) ==
    IF i > Len(lines) THEN "none"
    ELSE IF lines[i] = BlankLine THEN ReplayError(root, strict, lines, i + 1)
    ELSE ReplayErrorNext(ApplyEntry(root, strict, FALSE, <<>>, lines[i]),
                         root, strict, lines, i)
ReplayErrorNext(r, root, strict, lines, i) ==
    IF ~r.ok THEN EntryError(root, strict, lines[i])
    ELSE ReplayError(r.root, strict, lines, i + 1)

\* ------------------------------------------------------------------ state

VARIABLES
    root,      \* ConfigTree.root
    strict,    \* ConfigTree.strict_mode
    logging,   \* StorageRuntime._logging_enabled
    wal,       \* the lines of the WAL file
    snap,      \* the snapshot file
    pc,        \* "idle", or the caller of a checkpoint that has saved and not yet cleared
    last,      \* the last call made, its outcome and the state it started from
    clean,     \* only set, delete and checkpoint calls so far, none of set/delete raised
    excl,      \* leaf/interior exclusivity has held in every state so far
    calls      \* the number of calls made so far

vars == <<root, strict, logging, wal, snap, pc, last, clean, excl, calls>>

\* The paths and values the callers pass.
PathA == <<"a">>
PathAB == <<"a", ".", "b">>
PathEmpty == <<>>
Paths == {PathA, PathAB, PathEmpty}
Values == {IntV(1), IntV(QLimit), ListV(1)}

\* Leaf/interior exclusivity of every node of the tree.
Exclusive(tree) ==
    \A n \in NodesOf(tree) :
        Len(n.children) > 0 => n.value = None /\ n.type = NoType

NoCall ==
    [op |-> "none", path |-> <<>>, value |-> None, outcome |-> "returned",
     root |-> Node(RootName), wal |-> <<>>, hooked |-> FALSE,
     hookRoot |-> Node(RootName), afterStart |-> FALSE,
     wasClean |-> TRUE, wasExcl |-> TRUE]

\* StorageRuntime(snapshot, wal) on two new paths and ConfigTree(runtime=runtime).
Init ==
    /\ root = Node(RootName)
    /\ strict = FALSE
    /\ logging = TRUE
    /\ wal = <<>>
    /\ snap = NoFile
    /\ pc = "idle"
    /\ last = NoCall
    /\ clean = TRUE
    /\ excl = TRUE
    /\ calls = 0

Called(op, path, value, outcome, r) ==
    [op |-> op, path |-> path, value |-> value, outcome |-> outcome,
     root |-> root, wal |-> wal, hooked |-> r.hooked, hookRoot |-> r.hookRoot,
     afterStart |-> FALSE, wasClean |-> clean, wasExcl |-> excl]

NoHook == [hooked |-> FALSE, hookRoot |-> root]

\* tree.set(path, value)
Set ==
    \E path \in Paths, value \in Values, ioOk \in BOOLEAN :
        \E r \in {SetCall(root, strict, logging, wal, path, value, FALSE, ioOk)} :
        /\ pc = "idle"
        /\ Len(wal) < MaxWal
        /\ root' = r.root
        /\ wal' = r.wal
        /\ last' = Called("set", path, value, r.outcome, r)
        /\ clean' = (clean /\ r.outcome = "returned")
        /\ excl' = (excl /\ Exclusive(r.root))
        /\ calls < MaxCalls
        /\ calls' = calls + 1
        /\ UNCHANGED <<strict, logging, snap, pc>>

\* tree.delete(path)
Delete ==
    \E path \in Paths, ioOk \in BOOLEAN :
        \E r \in {DeleteCall(root, strict, logging, wal, path, FALSE, ioOk)} :
        /\ pc = "idle"
        /\ Len(wal) < MaxWal
        /\ root' = r.root
        /\ wal' = r.wal
        /\ last' = Called("delete", path, None, r.outcome, r)
        /\ clean' = (clean /\ r.outcome \in {"true", "false"})
        /\ excl' = (excl /\ Exclusive(r.root))
        /\ calls < MaxCalls
        /\ calls' = calls + 1
        /\ UNCHANGED <<strict, logging, snap, pc>>

\* runtime.checkpoint(tree) and runtime.shutdown(tree), first step:
\* SnapshotStore.save.  When save raises the call is over.
CheckpointSave ==
    \E caller \in {"checkpoint", "shutdown"} :
        \E s \in {Save(root)} :
        /\ pc = "idle"
        /\ snap' = s.file
        /\ pc' = IF s.ok THEN caller ELSE "idle"
        /\ last' = Called(caller, <<>>, None, IF s.ok THEN "saved" ELSE "raised", NoHook)
        /\ calls < MaxCalls
        /\ calls' = calls + 1
        /\ UNCHANGED <<root, strict, logging, wal, clean, excl>>

\* runtime.checkpoint(tree), second step: self.wal.clear()
CheckpointClear ==
    /\ pc # "idle"
    /\ wal' = <<>>
    /\ pc' = "idle"
    /\ last' = [last EXCEPT !.outcome = "returned"]
    /\ UNCHANGED <<root, strict, logging, snap, clean, excl, calls>>

\* The process dies and a new one runs StorageRuntime(snapshot, wal),
\* ConfigTree(strict_mode=s, runtime=runtime), runtime.start(tree).
Restart ==
    \E s \in BOOLEAN :
        \E r \in {Start(Node(RootName), s, snap, wal)} :
        /\ root' = r.root
        /\ strict' = s
        /\ logging' = r.logging
        /\ wal' = r.wal
        /\ pc' = "idle"
        /\ last' = [Called("restart", <<>>, None, IF r.ok THEN "returned" ELSE "raised", NoHook)
                       EXCEPT !.root = Node(RootName)]
        /\ clean' = (clean /\ r.ok /\ ~s)
        /\ excl' = (excl /\ Exclusive(r.root))
        /\ calls < MaxCalls
        /\ calls' = calls + 1
        /\ UNCHANGED snap

\* runtime.start(tree) on the tree the process already holds.
StartAgain ==
    \E r \in {Start(root, strict, snap, wal)} :
    /\ pc = "idle"
    /\ root' = r.root
    /\ logging' = r.logging
    /\ wal' = r.wal
    /\ last' = [Called("start", <<>>, None, IF r.ok THEN "returned" ELSE "raised", NoHook)
                   EXCEPT !.afterStart = (last.op \in {"start", "restart"}
                                            /\ last.outcome = "returned")]
    /\ clean' = (clean /\ r.ok)
    /\ excl' = (excl /\ Exclusive(r.root))
    /\ calls < MaxCalls
    /\ calls' = calls + 1
    /\ UNCHANGED <<strict, snap, pc>>

\* tree.set_strict_mode(enabled)
SetStrictMode ==
    \E enabled \in BOOLEAN :
        /\ pc = "idle"
        /\ strict' = enabled
        /\ last' = Called("set_strict_mode", <<>>, None, "returned", NoHook)
        /\ clean' = FALSE
        /\ calls < MaxCalls
        /\ calls' = calls + 1
        /\ UNCHANGED <<root, logging, wal, snap, pc, excl>>

\* The data the callers load: {"a": {"b": 1}}, {"a": 1, 7: 1}, and a list
\* (not a mapping).
Dicts ==
    {[isDict |-> TRUE, items |-> <<MapItem(<<"a">>, <<ScalarItem(<<"b">>, IntV(1))>>)>>],
     [isDict |-> TRUE, items |-> <<ScalarItem(<<"a">>, IntV(1)), IntKeyItem(IntV(1))>>],
     [isDict |-> FALSE, items |-> <<>>]}

\* tree.load_dict(data)
LoadDict ==
    \E data \in Dicts :
        \E r \in {LoadDictCall(root, data.isDict, data.items)} :
        /\ pc = "idle"
        /\ root' = r.root
        /\ last' = Called("load_dict", <<>>, None, r.outcome, NoHook)
        /\ clean' = FALSE
        /\ excl' = (excl /\ Exclusive(r.root))
        /\ calls < MaxCalls
        /\ calls' = calls + 1
        /\ UNCHANGED <<strict, logging, wal, snap, pc>>

Next ==
    \/ Set
    \/ Delete
    \/ CheckpointSave
    \/ CheckpointClear
    \/ Restart
    \/ StartAgain
    \/ SetStrictMode

Spec == Init /\ [][Next]_vars

\* The same with bulk loads.
NextLoad ==
    \/ Set
    \/ Delete
    \/ CheckpointSave
    \/ CheckpointClear
    \/ Restart
    \/ StartAgain
    \/ SetStrictMode
    \/ LoadDict

SpecLoad == Init /\ [][NextLoad]_vars

\* ------------------------------------------------------------------ tree operations

\* The number of calls in one run of the tree operations below.
MaxOps == 3

\* The paths, values and mappings of those calls: "root" and a sibling "c",
\* a value of each supported kind; {"a": {}, "b": True, "c": 1.0, "d": "x",
\* "e": 1}, {"a": {"b": 1}, "c": 1}, {"a": 1, 7: 1} and a list (not a
\* mapping).
PathRoot == <<"r", "o", "o", "t">>
PathC == <<"c">>
OpPaths == {PathA, PathAB, PathC, PathRoot}
OpValues == {BoolV(TRUE), IntV(1), FloatV(1), StrV(<<"x">>)}
OpDicts ==
    {[isDict |-> TRUE,
      items |-> <<MapItem(<<"a">>, <<>>), ScalarItem(<<"b">>, BoolV(TRUE)),
                  ScalarItem(<<"c">>, FloatV(1)), ScalarItem(<<"d">>, StrV(<<"x">>)),
                  ScalarItem(<<"e">>, IntV(1))>>],
     [isDict |-> TRUE,
      items |-> <<MapItem(<<"a">>, <<ScalarItem(<<"b">>, IntV(1))>>),
                  ScalarItem(<<"c">>, IntV(1))>>],
     [isDict |-> TRUE, items |-> <<ScalarItem(<<"a">>, IntV(1)), IntKeyItem(IntV(1))>>],
     [isDict |-> FALSE, items |-> <<>>]}

\* tree.set(path, value), the WAL file writable.
OpSet ==
    /\ calls < MaxOps
    /\ \E path \in OpPaths, value \in OpValues :
        \E r \in {SetCall(root, strict, logging, wal, path, value, FALSE, TRUE)} :
        /\ root' = r.root
        /\ wal' = r.wal
        /\ last' = Called("set", path, value, r.outcome, r)
        /\ clean' = (clean /\ r.outcome = "returned")
        /\ excl' = (excl /\ Exclusive(r.root))
        /\ calls' = calls + 1
        /\ UNCHANGED <<strict, logging, snap, pc>>

\* tree.delete(path), the WAL file writable.
OpDelete ==
    /\ calls < MaxOps
    /\ \E path \in OpPaths :
        \E r \in {DeleteCall(root, strict, logging, wal, path, FALSE, TRUE)} :
        /\ root' = r.root
        /\ wal' = r.wal
        /\ last' = Called("delete", path, None, r.outcome, r)
        /\ clean' = (clean /\ r.outcome \in {"true", "false"})
        /\ excl' = (excl /\ Exclusive(r.root))
        /\ calls' = calls + 1
        /\ UNCHANGED <<strict, logging, snap, pc>>

\* tree.set_strict_mode(enabled)
OpSetStrictMode ==
    /\ calls < MaxOps
    /\ \E enabled \in BOOLEAN :
        /\ strict' = enabled
        /\ last' = Called("set_strict_mode", <<>>, None, "returned", NoHook)
        /\ clean' = FALSE
        /\ calls' = calls + 1
        /\ UNCHANGED <<root, logging, wal, snap, pc, excl>>

\* tree.load_dict(data); the call record keeps data as its value.
OpLoadDict ==
    /\ calls < MaxOps
    /\ \E data \in OpDicts :
        \E r \in {LoadDictCall(root, data.isDict, data.items)} :
        /\ root' = r.root
        /\ last' = Called("load_dict", <<>>, data, r.outcome, NoHook)
        /\ clean' = FALSE
        /\ excl' = (excl /\ Exclusive(r.root))
        /\ calls' = calls + 1
        /\ UNCHANGED <<strict, logging, wal, snap, pc>>

\* SnapshotStore.save(tree, snapshot_path)
OpSave ==
    /\ calls < MaxOps
    /\ \E s \in {Save(root)} :
        /\ snap' = s.file
        /\ last' = Called("save", <<>>, None, IF s.ok THEN "returned" ELSE "raised", NoHook)
        /\ clean' = FALSE
        /\ calls' = calls + 1
        /\ UNCHANGED <<root, strict, logging, wal, pc, excl>>

\* SnapshotStore.load(tree, snapshot_path); a missing file is the
\* path-not-found error.
OpLoad ==
    /\ calls < MaxOps
    /\ \E l \in {IF snap.exists THEN Load(root, snap) ELSE [ok |-> FALSE, root |-> root]} :
        /\ root' = l.root
        /\ last' = Called("load", <<>>, None, IF l.ok THEN "returned" ELSE "raised", NoHook)
        /\ clean' = FALSE
        /\ excl' = (excl /\ Exclusive(l.root))
        /\ calls' = calls + 1
        /\ UNCHANGED <<strict, logging, wal, snap, pc>>

NextOps ==
    \/ OpSet
    \/ OpDelete
    \/ OpSetStrictMode
    \/ OpLoadDict
    \/ OpSave
    \/ OpLoad

\* A process that works on one tree with a started runtime attached.
SpecOps == Init /\ [][NextOps]_vars

\* ------------------------------------------------------------------ recovery from a given WAL file

\* The longest WAL file a recovery is started on.
MaxLines == 3

\* A record whose op is neither SET nor DELETE.
UnknownOpEntry == [op |-> "MOVE", path |-> PathA, value |-> NoJson]

\* The lines a WAL file is made of, and the WAL files.
WalLines ==
    {SetEntry(PathA, IntV(1)), SetEntry(PathAB, IntV(1)), DeleteEntry(PathA),
     BlankLine, UnknownOpEntry}
WalFiles == UNION {[1..n -> WalLines] : n \in 0..MaxLines}

\* A process finds a WAL file and no snapshot.
InitReplay ==
    /\ root = Node(RootName)
    /\ strict = FALSE
    /\ logging = TRUE
    /\ wal \in WalFiles
    /\ snap = NoFile
    /\ pc = "idle"
    /\ last = NoCall
    /\ clean = TRUE
    /\ excl = TRUE
    /\ calls = 0

\* StorageRuntime(snapshot, wal), ConfigTree(strict_mode=s, runtime=runtime),
\* runtime.start(tree); the outcome is "returned" or the error raised.
Recover ==
    /\ calls = 0
    /\ \E s \in BOOLEAN :
        \E r \in {Start(Node(RootName), s, snap, wal)} :
        /\ root' = r.root
        /\ strict' = s
        /\ logging' = r.logging
        /\ wal' = r.wal
        /\ last' = Called("recover", <<>>, None,
                          IF r.ok THEN "returned"
                          ELSE ReplayError(Node(RootName), s, wal, 1), NoHook)
        /\ clean' = FALSE
        /\ excl' = (excl /\ Exclusive(r.root))
        /\ calls' = calls + 1
        /\ UNCHANGED <<snap, pc>>

NextReplay == Recover

SpecReplay == InitReplay /\ [][NextReplay]_vars

\* ------------------------------------------------------------------ path forms

\* The number of calls made with the path forms below.
MaxPathOps == 3

\* "a..b", ".a.b.", " a.b ", ".", " "
PathDoubled == <<"a", ".", ".", "b">>
PathDotted == <<".", "a", ".", "b", ".">>
PathPadded == <<" ", "a", ".", "b", " ">>
PathDot == <<".">>
PathBlank == <<" ">>

\* The paths that name a.b, the paths without a segment, and the paths
\* the callers pass.
SamePaths == {PathAB, PathDoubled, PathDotted, PathPadded}
NoPaths == {PathEmpty, PathDot, PathBlank, PathNone}
PathForms == SamePaths \cup NoPaths \cup {PathA}

\* tree.set(path, 1)
FormSet ==
    /\ calls < MaxPathOps
    /\ \E path \in PathForms :
        \E r \in {SetCall(root, strict, logging, wal, path, IntV(1), FALSE, TRUE)} :
        /\ root' = r.root
        /\ wal' = r.wal
        /\ last' = Called("set", path, IntV(1), r.outcome, r)
        /\ clean' = (clean /\ r.outcome = "returned")
        /\ excl' = (excl /\ Exclusive(r.root))
        /\ calls' = calls + 1
        /\ UNCHANGED <<strict, logging, snap, pc>>

\* tree.delete(path)
FormDelete ==
    /\ calls < MaxPathOps
    /\ \E path \in PathForms :
        \E r \in {DeleteCall(root, strict, logging, wal, path, FALSE, TRUE)} :
        /\ root' = r.root
        /\ wal' = r.wal
        /\ last' = Called("delete", path, None, r.outcome, r)
        /\ clean' = (clean /\ r.outcome \in {"true", "false"})
        /\ excl' = (excl /\ Exclusive(r.root))
        /\ calls' = calls + 1
        /\ UNCHANGED <<strict, logging, snap, pc>>

NextForms == FormSet \/ FormDelete

SpecForms == Init /\ [][NextForms]_vars

\* ------------------------------------------------------------------ properties

\* What a crash now, followed by StorageRuntime(snapshot, wal),
\* ConfigTree(runtime=runtime) and runtime.start(tree), recovers.
RecoversAs(r) == r.ok /\ ToDict(r.root) = ToDict(root)
RecoversCurrentTree == RecoversAs(Start(Node(RootName), FALSE, snap, wal))

\* C1: after any sequence of successful set and delete calls with
\* checkpoint calls interleaved, a crash once the last call is over and a
\* start on a fresh tree give the to_dict() of the tree before the crash.
C1_CrashRecovery == (clean /\ pc = "idle") => RecoversCurrentTree

\* C2: in every reachable tree a node that has children has no value and
\* no type tag (so a node that has a value has no children).
C2_LeafInteriorExclusive == Exclusive(root)

\* C3: a set that returned, and a delete that returned true, appended
\* exactly one record to the WAL: SET with its path and value, DELETE with
\* its path.  Stated for a runtime whose files hold what successful calls
\* leave: a snapshot that loads, if there is one, and records of scalar
\* values only.
C3_SuccessIsLogged ==
    (/\ snap.exists => Load(Node(RootName), snap).ok
     /\ \A i \in 1..Len(wal) : wal[i].value.j # "array")
    => /\ (last.op = "set" /\ last.outcome = "returned")
              => wal = Append(last.wal, SetEntry(last.path, last.value))
       /\ (last.op = "delete" /\ last.outcome = "true")
              => wal = Append(last.wal, DeleteEntry(last.path))

\* C4: a set that raised, whatever the error, left the WAL as it was.
C4_FailedSetLeavesWal ==
    (last.op = "set" /\ last.outcome # "returned") => wal = last.wal

\* C5: a set or delete that raised left the tree exactly as it was.
C5_FailedCallLeavesTree ==
    (last.op \in {"set", "delete"} /\ last.outcome \notin {"returned", "true", "false"})
        => root = last.root

\* C6: in a set or delete that went through, the tree was still the tree
\* the call started from when before_set / before_delete was invoked (and
\* appended the record).
C6_LogBeforeMutate ==
    (last.hooked /\ last.outcome \in {"returned", "true"}) => last.hookRoot = last.root

\* C7: a crash between checkpoint's snapshot write and its WAL truncation
\* loses nothing: start on a fresh tree loads the new snapshot, replays the
\* WAL over it without error and gives the checkpointed to_dict().
C7_CheckpointCrashWindow == (clean /\ excl /\ pc # "idle") => RecoversCurrentTree

\* C8: a start right after a start, on the same tree, completes, leaves
\* to_dict() as it was and leaves the WAL as it was.
C8_StartTwice ==
    (last.op = "start" /\ last.afterStart /\ last.wasClean /\ last.wasExcl)
        => /\ last.outcome = "returned"
           /\ ToDict(root) = ToDict(last.root)
           /\ wal = last.wal

\* C9: start leaves the WAL's records exactly as it found them, whether
\* it returns or raises.
C9_RecoveryNeverRelogs == last.op \in {"start", "restart"} => wal = last.wal

C9_Witness ==
    /\ last.op = "restart"
    /\ last.outcome = "returned"
    /\ \E i, j \in 1..Len(wal) : wal[i].op = "SET" /\ wal[j].op = "DELETE"
    /\ Len(root.children) > 0

\* C10: once checkpoint or shutdown has returned the WAL is empty and the
\* snapshot holds the tree: a start on a fresh tree, strict or not, gives
\* the same to_dict().
C10_AfterCheckpoint ==
    (last.op \in {"checkpoint", "shutdown"} /\ last.outcome = "returned")
        => /\ wal = <<>>
           /\ snap.exists
           /\ \A s \in BOOLEAN : RecoversAs(Start(Node(RootName), s, snap, wal))

C10_Witness ==
    /\ last.op = "shutdown"
    /\ last.outcome = "returned"
    /\ last.wal # <<>>
    /\ \E n \in NodesOf(root) : n.value = IntV(1)

\* C11: a snapshot that save has produced loads into a fresh tree with the
\* same to_dict(): every leaf has its scalar of the same kind, every
\* interior node, an empty one included, is a mapping (the entries of
\* ToDict carry the value's kind, and the empty mapping for an empty
\* interior node), and the loaded tree is the saved tree node for node.
C11_SnapshotRoundTrip ==
    (last.op = "save" /\ last.outcome = "returned")
        => /\ Load(Node(RootName), snap).ok
           /\ ToDict(Load(Node(RootName), snap).root) = ToDict(root)
           /\ Load(Node(RootName), snap).root = root

C11_Witness ==
    /\ last.op = "save"
    /\ last.outcome = "returned"
    /\ \A v \in OpValues : \E n \in NodesOf(root) : n.value = v
    /\ \E n \in NodesOf(root) :
           n.name = <<"a">> /\ n.value = None /\ Len(n.children) = 0

\* C12: a set(p, v) that returned has returned v (the value the node
\* holds), and the get(p) that follows returns the scalar v, of v's kind.
C12_SetThenGet ==
    (last.op = "set" /\ last.outcome = "returned")
        => /\ NodeAt(root, Split(last.path).parts).value = last.value
           /\ Get(root, last.path).ok
           /\ Get(root, last.path).val = {[path |-> <<>>, val |-> last.value]}

C12_Witness ==
    /\ last.op = "set"
    /\ last.outcome = "returned"
    /\ last.path = PathAB
    /\ last.value = StrV(<<"x">>)
    /\ Get(last.root, PathAB).ok

\* C13: a start on a fresh tree that raised, in the snapshot load or in
\* the WAL replay, has left the tree as it was before: an empty root.
C13_FailedStartLeavesTree ==
    (last.op = "restart" /\ last.outcome = "raised") => root = Node(RootName)

\* C14: while strict mode is on, a set whose path names a node that does
\* not exist fails with the strict-mode error, appends no WAL record and
\* creates no node; a set on an existing node without children succeeds.
C14_StrictMode ==
    (last.op = "set" /\ strict /\ Split(last.path).ok)
        => /\ ~HasPath(last.root, Split(last.path).parts)
                 => /\ last.outcome = "strict-mode"
                    /\ wal = last.wal
                    /\ root = last.root
           /\ (/\ HasPath(last.root, Split(last.path).parts)
               /\ Len(NodeAt(last.root, Split(last.path).parts).children) = 0)
                 => last.outcome = "returned"

C14_Witness ==
    /\ last.op = "set"
    /\ strict
    /\ last.path = PathAB
    /\ HasPath(last.root, <<PathA>>)
    /\ last.outcome = "strict-mode"

\* C15: a set on a path whose node has at least one child fails with the
\* node-structure error, appends no WAL record and leaves the tree, that
\* node and its children included, as it was.
C15_AssignToInterior ==
    (/\ last.op = "set"
     /\ Split(last.path).ok
     /\ HasPath(last.root, Split(last.path).parts)
     /\ Len(NodeAt(last.root, Split(last.path).parts).children) > 0)
        => /\ last.outcome = "node-structure"
           /\ wal = last.wal
           /\ root = last.root

C15_Witness ==
    /\ last.op = "set"
    /\ last.path = PathA
    /\ HasPath(last.root, <<PathA, <<"b">>>>)
    /\ last.outcome = "node-structure"
    /\ wal # <<>>

\* C16: a delete whose path is the single segment "root" fails with the
\* node-structure error, appends no WAL record and changes nothing; and
\* the tree always has a root node named "root".
C16_RootIndelible ==
    /\ root.name = RootName
    /\ (last.op = "delete" /\ Split(last.path).ok /\ Split(last.path).parts = <<RootName>>)
          => /\ last.outcome = "node-structure"
             /\ wal = last.wal
             /\ root = last.root

C16_Witness ==
    /\ last.op = "delete"
    /\ last.path = PathRoot
    /\ last.outcome = "node-structure"
    /\ Len(root.children) > 0

C18_TypeValueAgreement ==
    /\ \A n \in NodesOf(root) :
           n.value # None => InferTypeOk(n.value) /\ n.type = InferType(n.value)
    /\ (last.op = "set" /\ last.outcome = "invalid-format")
          => \A n \in NodesOf(root) : n.value # last.value

\* The paths (sequences of parts) of all nodes of the subtree at node, and
\* p is q or a path above q.
RECURSIVE NodePaths(_, _)
NodePaths(node, prefix) ==
    {prefix} \cup UNION {NodePaths(node.children[i], Append(prefix, node.children[i].name)) :
                            i \in 1..Len(node.children)}
IsPrefix(p, q) == Len(p) <= Len(q) /\ SubSeq(q, 1, Len(p)) = p

\* What C19 says of a delete that returned true on the path of parts p,
\* from the tree before to the tree after.
SubtreeRemoved(before, after, p) ==
    /\ \A q \in NodePaths(before, <<>>) : IsPrefix(p, q) => ~HasPath(after, q)
    /\ HasPath(after, SubSeq(p, 1, Len(p) - 1))
    /\ (Len(p) > 1 /\ Len(NodeAt(after, SubSeq(p, 1, Len(p) - 1)).children) = 0)
          => Get(after, Join(SubSeq(p, 1, Len(p) - 1))).val
                 = {[path |-> <<>>, val |-> EmptyMap]}
    /\ NodePaths(after, <<>>) \subseteq NodePaths(before, <<>>)
    /\ \A q \in NodePaths(before, <<>>) :
           ~IsPrefix(p, q)
             => /\ HasPath(after, q)
                /\ NodeAt(after, q).name = NodeAt(before, q).name
                /\ NodeAt(after, q).value = NodeAt(before, q).value
                /\ NodeAt(after, q).type = NodeAt(before, q).type
                /\ ~IsPrefix(q, p) => NodeAt(after, q) = NodeAt(before, q)

\* C19: a delete(p) that returned true has removed exactly the subtree at
\* p: get(p) and get of every path below p fail with path-not-found, the
\* parent of p still exists (its get is the empty mapping when it has no
\* child left), and every node outside the subtree is as it was.
C19_DeleteRemovesSubtree ==
    (last.op = "delete" /\ last.outcome = "true")
        => /\ ~Get(root, last.path).ok
           /\ Get(root, last.path).err = "path-not-found"
           /\ SubtreeRemoved(last.root, root, Split(last.path).parts)

\* The mapping that the items of data denote, as to_dict() would show it:
\* one entry per scalar and one per empty nested mapping.
RECURSIVE DataView(_, _)
DataView(items, prefix) ==
    UNION {IF ~items[i].isMap
           THEN {[path |-> Append(prefix, items[i].key), val |-> items[i].val]}
           ELSE IF items[i].items = <<>>
           THEN {[path |-> Append(prefix, items[i].key), val |-> EmptyMap]}
           ELSE DataView(items[i].items, Append(prefix, items[i].key)) :
           i \in 1..Len(items)}

\* C20: a load_dict(data) has either returned, and to_dict() equals data,
\* or raised invalid-format and left the tree exactly as it was.
C20_LoadDictAllOrNothing ==
    last.op = "load_dict"
        => /\ last.outcome = "returned" => ToDict(root) = DataView(last.value.items, <<>>)
           /\ last.outcome # "returned"
                 => last.outcome = "invalid-format" /\ root = last.root

\* The records of a WAL file, and the tree after the first n of them have
\* been applied one after the other to a fresh tree: [ok, root], not ok
\* once one of them has raised.
NonBlank(lines) == SelectSeq(lines, LAMBDA l : l # BlankLine)
RECURSIVE InOrder(_, _, _)
InOrderStep(prev, s, entry) ==
    IF ~prev.ok THEN prev
    ELSE [ok |-> ApplyEntry(prev.root, s, FALSE, <<>>, entry).ok,
          root |-> ApplyEntry(prev.root, s, FALSE, <<>>, entry).root]
InOrder(s, entries, n) ==
    IF n = 0 THEN [ok |-> TRUE, root |-> Node(RootName)]
    ELSE InOrderStep(InOrder(s, entries, n - 1), s, entries[n])

\* C21: replay applies the records in file order and skips blank lines,
\* and a record whose op is neither SET nor DELETE, once reached, makes
\* start fail with the invalid-format error.
C21_ReplayInOrder ==
    last.op = "recover"
        => /\ last.outcome = "returned"
                => /\ InOrder(strict, NonBlank(wal), Len(NonBlank(wal))).ok
                   /\ root = InOrder(strict, NonBlank(wal), Len(NonBlank(wal))).root
           /\ \A n \in 1..Len(NonBlank(wal)) :
                 (/\ InOrder(strict, NonBlank(wal), n - 1).ok
                  /\ NonBlank(wal)[n].op \notin {"SET", "DELETE"})
                    => last.outcome = "invalid-format"

\* The mapping that sends each child name of the node at the path of
\* parts q to what get returns for that child.
ChildView(tree, q, child) ==
    {[path |-> <<child.name>> \o e.path, val |-> e.val] :
        e \in Get(tree, Join(Append(q, child.name))).val}
ChildrenView(tree, q) ==
    UNION {ChildView(tree, q, NodeAt(tree, q).children[i]) :
              i \in 1..Len(NodeAt(tree, q).children)}

\* The paths, relative to q, of the nodes without children below q.
EntriesBelow(tree, q) ==
    {SubSeq(r, Len(q) + 1, Len(r)) :
        r \in {r \in NodePaths(tree, <<>>) :
                  IsPrefix(q, r) /\ Len(NodeAt(tree, r).children) = 0}}

\* C22: get on a node with children returns the mapping of each child name
\* to what get returns for the child, a scalar for a child that holds a
\* value and has no children and a mapping otherwise, with exactly the
\* entries beneath the node; to_dict is that view of the root, the empty
\* mapping when the root has no children.
C22_GetInterior ==
    /\ \A q \in NodePaths(root, <<>>) :
          (q # <<>> /\ Len(NodeAt(root, q).children) > 0)
              => /\ Get(root, Join(q)).ok
                 /\ Get(root, Join(q)).val = ChildrenView(root, q)
                 /\ {e.path : e \in Get(root, Join(q)).val} = EntriesBelow(root, q)
                 /\ \A i \in 1..Len(NodeAt(root, q).children) :
                       IsLeaf(NodeAt(root, q).children[i])
                           => [path |-> <<NodeAt(root, q).children[i].name>>,
                               val |-> NodeAt(root, q).children[i].value]
                                  \in Get(root, Join(q)).val
    /\ ToDict(root) = ChildrenView(root, <<>>)
    /\ Len(root.children) = 0 => ToDict(root) = {}
    /\ Len(root.children) > 0
          => {e.path : e \in ToDict(root)} = EntriesBelow(root, <<>>)

C22_Witness ==
    /\ last.op = "delete"
    /\ last.outcome = "true"
    /\ clean
    /\ Len(last.root.children) = 2
    /\ Len(root.children) = 1
    /\ Len(root.children[1].children) = 1
    /\ IsLeaf(root.children[1].children[1])

\* C23: "a..b", ".a.b." and " a.b " name the node "a.b" names, for get,
\* set and delete; a path without a segment ("", ".", " ") or an absent
\* path is rejected with invalid-path by get, set and delete, the tree and
\* the WAL unchanged.
C23_PathParsing ==
    /\ \A p \in SamePaths : Get(root, p) = Get(root, PathAB)
    /\ \A p \in NoPaths : ~Get(root, p).ok /\ Get(root, p).err = "invalid-path"
    /\ (last.op = "set" /\ last.path \in SamePaths)
          => /\ last.outcome
                   = SetCall(last.root, strict, logging, last.wal, PathAB,
                             last.value, FALSE, TRUE).outcome
             /\ root = SetCall(last.root, strict, logging, last.wal, PathAB,
                               last.value, FALSE, TRUE).root
             /\ last.outcome = "returned" => HasPath(root, <<PathA, <<"b">>>>)
    /\ (last.op = "delete" /\ last.path \in SamePaths)
          => /\ last.outcome
                   = DeleteCall(last.root, strict, logging, last.wal, PathAB,
                                FALSE, TRUE).outcome
             /\ root = DeleteCall(last.root, strict, logging, last.wal, PathAB,
                                  FALSE, TRUE).root
             /\ last.outcome = "true"
                   => HasPath(last.root, <<PathA, <<"b">>>>)
                         /\ ~HasPath(root, <<PathA, <<"b">>>>)
    /\ (last.op \in {"set", "delete"} /\ last.path \in NoPaths)
          => /\ last.outcome = "invalid-path"
             /\ root = last.root
             /\ wal = last.wal

C23_Witness ==
    /\ last.op = "delete"
    /\ last.path = PathDoubled
    /\ last.outcome = "true"
    /\ \E i \in 1..Len(wal) : wal[i] = SetEntry(PathDotted, IntV(1))
    /\ \E i \in 1..Len(wal) : wal[i].op = "DELETE" /\ wal[i].path = PathDoubled

\* C24: a checkpoint or shutdown whose snapshot save raised, after calls
\* that all succeeded, has left the WAL as it was and a snapshot file that
\* still loads, and a start on a fresh tree recovers the to_dict() of the
\* tree.
C24_FailedCheckpointKeepsState ==
    (last.op \in {"checkpoint", "shutdown"} /\ last.outcome = "raised" /\ last.wasClean)
        => /\ wal = last.wal
           /\ snap.exists => Load(Node(RootName), snap).ok
           /\ RecoversCurrentTree

\* C25: a start on a fresh tree made with strict_mode=True ends as the
\* start on a fresh non-strict tree over the same snapshot and WAL ends:
\* it returns when that one returns, with the same to_dict().
C25_RecoveryIgnoresStrict ==
    (last.op = "restart" /\ strict)
        => /\ last.outcome = "returned"
                 <=> Start(Node(RootName), FALSE, snap, last.wal).ok
           /\ last.outcome = "returned"
                 => ToDict(root)
                       = ToDict(Start(Node(RootName), FALSE, snap, last.wal).root)

\* C26: after a set(p, v) that returned, delete(p) returns true and the
\* get(p) that follows fails with path-not-found, for every path p, the
\* top-level name "root" included.
C26_SetThenDelete ==
    (last.op = "set" /\ last.outcome = "returned")
        => /\ DeleteCall(root, strict, logging, wal, last.path, FALSE, TRUE).outcome = "true"
           /\ ~Get(DeleteCall(root, strict, logging, wal, last.path, FALSE, TRUE).root,
                   last.path).ok
           /\ Get(DeleteCall(root, strict, logging, wal, last.path, FALSE, TRUE).root,
                  last.path).err = "path-not-found"

====
